---- MODULE Spec2Model ----
(***************************************************************************)
(* Behavioural model of the Lazorkit Next.js starter dashboard: the wallet *)
(* session exposed by useWallet(), the connection control, and the action  *)
(* forms (SOL transfer, USDC transfer, message signing).                   *)
(*                                                                         *)
(* Text is modelled structurally so that parsing is computed, not assumed: *)
(*   - an amount, a recipient or a message typed by the user is a sequence *)
(*     of one-character strings;                                           *)
(*   - an error text is a sequence of words (<<>> is the empty string);    *)
(*   - a decimal number is [nan, neg, mant, exp], value mant * 10^exp.     *)
(* Decimal values are exact: binary floating-point rounding of            *)
(* parseFloat(x) * c is not modelled.                                      *)
(*                                                                         *)
(* Each component keeps its own useState cells.  A handler runs in one     *)
(* step up to its await (React batches the synchronous setState calls);    *)
(* the settlement of the awaited promise is a separate step.               *)
(***************************************************************************)
EXTENDS Integers, Sequences, FiniteSets, TLC

\* ------------------------------------------------------------------ bounds

\* Longest amount string enumerated over AmountAlphabet.
MaxAmountLen == 1

\* Most zeros between the decimal point and the last digit of a small amount.
MaxFracZeros == 6

\* Longest message enumerated over MessageAlphabet.
MaxMessageLen == 2

\* Most calls of one kind the session keeps outstanding in a run.
MaxCalls == 2

\* --------------------------------------------------------- text and numbers

SeqsUpTo(S, n) == UNION {[1..k -> S] : k \in 0..n}

\* s without its i-th element.
RemoveAt(s, i) == SubSeq(s, 1, i - 1) \o SubSeq(s, i + 1, Len(s))

RECURSIVE Repeat(_, _)
Repeat(c, n) == IF n = 0 THEN <<>> ELSE <<c>> \o Repeat(c, n - 1)

RECURSIVE Pow10(_)
Pow10(k) == IF k = 0 THEN 1 ELSE 10 * Pow10(k - 1)

RECURSIVE Log10(_)
Log10(c) == IF c = 1 THEN 0 ELSE 1 + Log10(c \div 10)

\* String.prototype.includes at word granularity: phrase is a contiguous
\* run of words of text.
Includes(text, phrase) ==
    \E i \in 0..(Len(text) - Len(phrase)) :
        \A j \in 1..Len(phrase) : text[i + j] = phrase[j]

\* String.prototype.trim: drop leading and trailing spaces.
RECURSIVE TrimStart(_)
TrimStart(s) == IF s # <<>> /\ Head(s) = " " THEN TrimStart(Tail(s)) ELSE s

RECURSIVE TrimEnd(_)
TrimEnd(s) ==
    IF s # <<>> /\ s[Len(s)] = " " THEN TrimEnd(SubSeq(s, 1, Len(s) - 1)) ELSE s

Trim(s) == TrimEnd(TrimStart(s))

DigitChars == {"0", "1", "2", "3", "4", "5", "6", "7", "8", "9"}

DigitVal(c) ==
    CASE c = "0" -> 0 [] c = "1" -> 1 [] c = "2" -> 2 [] c = "3" -> 3
      [] c = "4" -> 4 [] c = "5" -> 5 [] c = "6" -> 6 [] c = "7" -> 7
      [] c = "8" -> 8 [] c = "9" -> 9

\* Length of the longest prefix of s made of digits.
RECURSIVE DigitRun(_)
DigitRun(s) ==
    IF s # <<>> /\ Head(s) \in DigitChars THEN 1 + DigitRun(Tail(s)) ELSE 0

RECURSIVE DigitsValue(_)
DigitsValue(ds) ==
    IF ds = <<>> THEN 0
    ELSE 10 * DigitsValue(SubSeq(ds, 1, Len(ds) - 1)) + DigitVal(ds[Len(ds)])

NaN == [nan |-> TRUE, neg |-> FALSE, mant |-> 0, exp |-> 0]

Num(neg, mant, exp) == [nan |-> FALSE, neg |-> neg, mant |-> mant, exp |-> exp]

\* parseFloat: skip leading white space, read an optional sign, then the
\* longest decimal literal (digits, optional point, digits); anything after
\* it is ignored; NaN when no digit was read.  Exponents and "Infinity" are
\* outside the alphabets used here.
ParseFloat(str) ==
    LET s0 == TrimStart(str)
        signed == s0 # <<>> /\ Head(s0) \in {"-", "+"}
        neg == s0 # <<>> /\ Head(s0) = "-"
        s1 == IF signed THEN Tail(s0) ELSE s0
        nInt == DigitRun(s1)
        s2 == SubSeq(s1, nInt + 1, Len(s1))
        hasPoint == s2 # <<>> /\ Head(s2) = "."
        nFrac == IF hasPoint THEN DigitRun(Tail(s2)) ELSE 0
        digits == SubSeq(s1, 1, nInt)
                     \o (IF hasPoint THEN SubSeq(s2, 2, nFrac + 1) ELSE <<>>)
    IN IF nInt + nFrac = 0 THEN NaN
       ELSE Num(neg, DigitsValue(digits), 0 - nFrac)

\* x * c for c a power of ten.
Times(x, c) == IF x.nan THEN NaN ELSE [x EXCEPT !.exp = @ + Log10(c)]

IsNaN(x) == x.nan

\* x <= 0 (false for NaN; true for 0 and -0).
LeqZero(x) == ~x.nan /\ (x.mant = 0 \/ x.neg)

\* x < 0 (false for NaN and for -0).
LtZero(x) == ~x.nan /\ x.mant # 0 /\ x.neg

\* Math.floor: the largest integer not above x, as a number with exp >= 0
\* (or exp = 0 when a fraction is dropped).
Floor(x) ==
    IF x.nan \/ x.exp >= 0 THEN x
    ELSE LET d == Pow10(0 - x.exp)
             q == x.mant \div d
             r == x.mant % d
         IN Num(x.neg, IF x.neg /\ r # 0 THEN q + 1 ELSE q, 0)

\* ------------------------------------------------------------ input domains

\* Digits the amount strings are enumerated over.
AmountAlphabet == {"0", "1"}

\* "0.1", "0.01", ... : k zeros between the point and the 1.
Small(k) == <<"0", ".">> \o Repeat("0", k) \o <<"1">>

\* "0.0000000001": a tenth of a lamport, below the step of the amount field.
SubLamport == Small(9)

\* Zeros of the small decimals tried: a tenth, and the amounts around one
\* micro-unit of USDC (6 decimals).
SmallZeros == {0} \cup {k \in 0..MaxFracZeros : k >= 5}

\* What the user may type into an amount field: nothing, every short digit
\* string, a lone sign, a non-number, negative zero, a negative number, a
\* number followed by junk, and small decimals of either sign.
AmountStrings ==
    SeqsUpTo(AmountAlphabet, MaxAmountLen)
        \cup {<<"-">>, <<"x">>, <<"-", "0">>, <<"-", "1">>, <<"1", "x">>, SubLamport}
        \cup {Small(k) : k \in SmallZeros}
        \cup {<<"-">> \o Small(k) : k \in SmallZeros}

\* Bytes of a public key (the length new PublicKey() insists on).
PUBLIC_KEY_LENGTH == 32

\* What the user may type into a recipient field: nothing, two well-formed
\* addresses, one a byte short, one a byte long, one with a character
\* outside the base-58 alphabet.
RecipientStrings ==
    { <<>>,
      Repeat("1", PUBLIC_KEY_LENGTH),
      Repeat("1", PUBLIC_KEY_LENGTH - 1) \o <<"2">>,
      Repeat("1", PUBLIC_KEY_LENGTH - 1),
      Repeat("1", PUBLIC_KEY_LENGTH) \o <<"2">>,
      <<"0", "x", "1">> }

MessageAlphabet == {" ", "a"}

\* What the user may type into the message field.
MessageStrings == SeqsUpTo(MessageAlphabet, MaxMessageLen)

\* Account identifiers the SDK may expose after connect().
Accounts == {"acctA", "acctB"}

NoWallet == "null"

\* Signatures the SDK may resolve with.
Signatures == {"SIG999", "SIG1000"}

\* Messages of the errors the SDK may reject with (word sequences).
SdkMessages ==
    { <<>>,
      <<"User", "rejected">>,
      <<"Simulation", "failed", "insufficient", "funds">>,
      <<"TokenAccountNotFoundError">>,
      <<"AccountNotFound">> }

\* A value a promise may reject with (any JavaScript value):
\*   "Error"     an Error instance with .message;
\*   "object"    a non-Error object carrying a .message property;
\*   "primitive" a thrown string or number (.message is undefined);
\*   "nullish"   null or undefined (reading .message throws a TypeError).
ErrorOf(msg) == [kind |-> "Error", message |-> msg]

Thrown ==
    {ErrorOf(m) : m \in SdkMessages}
        \cup {[kind |-> "object", message |-> <<"User", "rejected">>],
              [kind |-> "primitive", message |-> <<>>],
              [kind |-> "nullish", message |-> <<>>]}

None == [kind |-> "none", message |-> <<>>]

Resolved(sig) == [kind |-> "resolved", message |-> <<sig>>]

\* No call of signAndSendTransaction is outstanding.
NoRequest == [instructions |-> <<>>, feeToken |-> "none"]

\* ----------------------------------------------------- address parsing

Base58Alphabet ==
    << "1", "2", "3", "4", "5", "6", "7", "8", "9",
       "A", "B", "C", "D", "E", "F", "G", "H", "J", "K", "L", "M", "N", "P",
       "Q", "R", "S", "T", "U", "V", "W", "X", "Y", "Z",
       "a", "b", "c", "d", "e", "f", "g", "h", "i", "j", "k", "m", "n", "o",
       "p", "q", "r", "s", "t", "u", "v", "w", "x", "y", "z" >>

IsBase58(c) == \E i \in 1..Len(Base58Alphabet) : Base58Alphabet[i] = c

Base58Index(c) == (CHOOSE i \in 1..Len(Base58Alphabet) : Base58Alphabet[i] = c) - 1

RECURSIVE LeadingOnes(_)
LeadingOnes(s) ==
    IF s # <<>> /\ Head(s) = "1" THEN 1 + LeadingOnes(Tail(s)) ELSE 0

RECURSIVE Base58Value(_)
Base58Value(ds) ==
    IF ds = <<>> THEN 0
    ELSE 58 * Base58Value(SubSeq(ds, 1, Len(ds) - 1)) + Base58Index(ds[Len(ds)])

RECURSIVE ByteCount(_)
ByteCount(v) == IF v = 0 THEN 0 ELSE 1 + ByteCount(v \div 256)

\* Bytes of the base-58 decoding of s: one zero byte per leading "1", then
\* the big-endian bytes of the number the remaining digits spell.
DecodedLength(s) ==
    LET n == LeadingOnes(s)
    IN n + ByteCount(Base58Value(SubSeq(s, n + 1, Len(s))))

\* new PublicKey(str): ok, or the Error its constructor throws.
PublicKeyParse(str) ==
    IF \E i \in 1..Len(str) : ~IsBase58(str[i])
    THEN [ok |-> FALSE, thrown |-> ErrorOf(<<"Non-base58", "character">>)]
    ELSE IF DecodedLength(str) # PUBLIC_KEY_LENGTH
    THEN [ok |-> FALSE, thrown |-> ErrorOf(<<"Invalid", "public", "key", "input">>)]
    ELSE [ok |-> TRUE, thrown |-> None]

\* -------------------------------------------------------------------- state

Forms == {"sol", "usdc", "sign"}

TransferForms == {"sol", "usdc"}

VARIABLES
    isConnected,    \* useWallet().isConnected
    isConnecting,   \* useWallet().isConnecting
    wallet,         \* account exposed by the session (wallet, smartWalletPubkey)
    connCalls,      \* connect() promises not yet settled
    discCalls,      \* disconnect() promises not yet settled
    connSettled,    \* last rejection of connect()/disconnect(): [call, value]
    mounted,        \* the action forms the page under test renders
    build,          \* which source variant of each form is built
    tf,             \* useState cells of the transfer forms
    sm,             \* useState cells of the message signing form
    pc,             \* where each form's submit handler stands
    calls,          \* external calls of each form not yet settled
    settled,        \* what the awaited promise of the handler's run settled with
    sent,           \* argument of each transfer form's outstanding external call
    signed,         \* argument of the outstanding signMessage call
    infoBuild,      \* which source variant of WalletInfo is built
    balance,        \* WalletInfo: useState<number | null>(null), in lamports
    isRefreshing,   \* WalletInfo: isRefreshing (or the shared loading flag)
    hasFetched,     \* WalletInfo: hasFetchedRef.current
    balCalls,       \* getBalance() queries not yet settled, in the order started
    balSettled,     \* how the last getBalance() promise settled, and its origin
    balStarted,     \* getBalance() queries started so far, by origin
    balanceFrom,    \* the query whose result setBalance last stored
    okSeq,          \* the latest-started query among those that resolved
    activities,     \* ActivityLog: useState<ActivityItem[]>([])
    logLoading,     \* ActivityLog: loading
    logError,       \* ActivityLog: error (<<>> for null)
    logCalls,       \* getSignaturesForAddress() queries not yet settled
    logSettled,     \* how the last history query settled
    clock,          \* Date.now(), in milliseconds
    timestamp,      \* blockTime handed to getTimeAgo, in seconds
    timeAgo,        \* what getTimeAgo returned for (clock, timestamp)
    isDark,         \* ThemeToggle: useState(true)
    savedTheme,     \* localStorage item "theme"
    rootLight,      \* document.documentElement carries the class "light"
    themePc         \* ThemeToggle: "init" until its mount effect has run

sessionVars == <<isConnected, isConnecting, wallet, connCalls, discCalls, connSettled>>

formVars == <<tf, sm, pc, calls, settled, sent, signed>>

infoVars == <<infoBuild, balance, isRefreshing, hasFetched, balCalls, balSettled,
              balStarted, balanceFrom, okSeq>>

logVars == <<activities, logLoading, logError, logCalls, logSettled>>

timeVars == <<clock, timestamp, timeAgo>>

themeVars == <<isDark, savedTheme, rootLight, themePc>>

widgetVars == <<infoVars, logVars, timeVars, themeVars>>

vars == <<isConnected, isConnecting, wallet, connCalls, discCalls, connSettled,
          mounted, build, tf, sm, pc, calls, settled, sent, signed,
          infoBuild, balance, isRefreshing, hasFetched, balCalls, balSettled,
          balStarted, balanceFrom, okSeq,
          activities, logLoading, logError, logCalls, logSettled,
          clock, timestamp, timeAgo,
          isDark, savedTheme, rootLight, themePc>>

\* useState("") / useState(false) of a transfer form.
TransferFormInit ==
    [recipient |-> <<>>, amount |-> <<>>, loading |-> FALSE,
     txSignature |-> "", error |-> <<>>]

\* useState("") / useState(false) of the message signing form.
SignMessageInit ==
    [message |-> <<>>, signature |-> "", loading |-> FALSE, error |-> <<>>]

\* Catch-clause styles found among the variants of a form:
\*   "typed": catch (err: unknown), err instanceof Error ? err.message : fallback
\*   "any":   catch (err: any),     err.message || fallback
Builds ==
    {b \in [Forms -> {"typed", "any"}] : b["sol"] = "typed"}

SessionInit ==
    /\ isConnected = FALSE
    /\ isConnecting = FALSE
    /\ wallet = NoWallet
    /\ connCalls = 0
    /\ discCalls = 0
    /\ connSettled = [call |-> "none", value |-> None]

FormsInit ==
    /\ tf = [f \in TransferForms |-> TransferFormInit]
    /\ sm = SignMessageInit
    /\ pc = [f \in Forms |-> "init"]
    /\ calls = [f \in Forms |-> 0]
    /\ settled = [f \in Forms |-> None]
    /\ sent = [f \in TransferForms |-> NoRequest]
    /\ signed = [called |-> FALSE, message |-> <<>>]

\* -------------------------------------------------- session (useWallet, SDK)

\* smartWalletPubkey of the session snapshot a component renders with.
smartWalletPubkey == wallet

\* <Button isLoading> / <button disabled>: the control takes no click while
\* its flag is set.
ButtonDisabled(flag) == flag

\* ConnectButton renders Disconnect iff isConnected && wallet, else Connect.
DisconnectRendered == isConnected /\ wallet # NoWallet

ConnectRendered == ~DisconnectRendered

\* Text the connection control shows for a failed connect()/disconnect():
\* the component keeps no error state and renders none.
ConnectButtonErrorText == <<>>

\* Mutant of ClickConnect: the Connect control stays enabled while a
\* connect() is in flight.
ClickConnect_NotDisabled ==
    /\ ConnectRendered
    /\ connCalls < MaxCalls
    /\ isConnecting' = TRUE
    /\ connCalls' = connCalls + 1
    /\ UNCHANGED <<isConnected, wallet, discCalls, connSettled>>

\* onClick={() => connect()}: one connect() call; the SDK raises isConnecting.
ClickConnect ==
    /\ ConnectRendered
    /\ ~ButtonDisabled(isConnecting)
    /\ connCalls < MaxCalls
    /\ isConnecting' = TRUE
    /\ connCalls' = connCalls + 1
    /\ UNCHANGED <<isConnected, wallet, discCalls, connSettled>>

\* connect() resolves: the session exposes the account.
ConnectResolved(a) ==
    /\ connCalls > 0
    /\ connCalls' = connCalls - 1
    /\ isConnecting' = FALSE
    /\ isConnected' = TRUE
    /\ wallet' = a
    /\ UNCHANGED <<discCalls, connSettled>>

\* connect() rejects: nothing awaits or catches the promise.
ConnectRejected(err) ==
    /\ connCalls > 0
    /\ connCalls' = connCalls - 1
    /\ isConnecting' = FALSE
    /\ connSettled' = [call |-> "connect", value |-> err]
    /\ UNCHANGED <<isConnected, wallet, discCalls>>

\* onClick={() => disconnect()}: one disconnect() call; no flag is kept.
ClickDisconnect ==
    /\ DisconnectRendered
    /\ discCalls < MaxCalls
    /\ discCalls' = discCalls + 1
    /\ UNCHANGED <<isConnected, isConnecting, wallet, connCalls, connSettled>>

\* disconnect() resolves: the session is cleared.
DisconnectResolved ==
    /\ discCalls > 0
    /\ discCalls' = discCalls - 1
    /\ isConnected' = FALSE
    /\ wallet' = NoWallet
    /\ UNCHANGED <<isConnecting, connCalls, connSettled>>

\* disconnect() rejects: nothing awaits or catches the promise.
DisconnectRejected(err) ==
    /\ discCalls > 0
    /\ discCalls' = discCalls - 1
    /\ connSettled' = [call |-> "disconnect", value |-> err]
    /\ UNCHANGED <<isConnected, isConnecting, wallet, connCalls>>

\* ------------------------------------------------------------ transfer forms

LAMPORTS_PER_SOL == 1000000000

\* 1_000_000: micro-units per USDC.
USDC_UNITS == 1000000

WalletNotConnected == <<"Wallet", "not", "connected">>

InvalidRecipientAddress == <<"Invalid", "recipient", "address">>

InvalidAmount == <<"Invalid", "amount">>

TransactionFailed == <<"Transaction", "failed">>

UsdcAccountNotFound ==
    <<"USDC", "account", "not", "found.", "Make", "sure", "you", "have",
      "USDC", "in", "your", "wallet.">>

InsufficientUsdcBalance == <<"Insufficient", "USDC", "balance">>

Ok == [ok |-> TRUE, thrown |-> None]

Throw(err) == [ok |-> FALSE, thrown |-> err]

\* Mutant of SolAmountRefused: only NaN is refused (the <= 0 test is lost).
SolAmountRefused_NaNOnly(amount) ==
    IsNaN(Times(ParseFloat(amount), LAMPORTS_PER_SOL))

\* TransferForm: lamports = parseFloat(amount) * LAMPORTS_PER_SOL is refused
\* when Number.isNaN(lamports) || lamports <= 0.
SolAmountRefused(amount) ==
    LET lamports == Times(ParseFloat(amount), LAMPORTS_PER_SOL)
    IN IsNaN(lamports) \/ LeqZero(lamports)

\* Mutant of SolPrepare: the inner catch swallows the PublicKey error instead
\* of rethrowing it.
SolPrepare_SwallowsKeyError(recipient, amount) ==
    IF SolAmountRefused(amount) THEN Throw(ErrorOf(InvalidAmount)) ELSE Ok

\* TransferForm, the try block up to the await: what it throws, if anything.
SolPrepare(recipient, amount) ==
    IF ~PublicKeyParse(recipient).ok THEN Throw(ErrorOf(InvalidRecipientAddress))
    ELSE IF SolAmountRefused(amount) THEN Throw(ErrorOf(InvalidAmount))
    ELSE Ok

\* BigInt(n) throws a RangeError for a number that is not an integer (NaN).
BigIntRangeError ==
    ErrorOf(<<"The", "number", "NaN", "cannot", "be", "converted", "to", "a", "BigInt">>)

\* writeBigUInt64LE throws a RangeError for a value below 0 (or above 2^64 - 1).
OutOfRangeError ==
    ErrorOf(<<"The", "value", "of", "\"value\"", "is", "out", "of", "range.">>)

\* USDCTransferForm, the try block up to the await: the recipient is parsed,
\* usdcAmount = Math.floor(parseFloat(amount) * 1_000_000) is computed with
\* no check of its own, and only BigInt() and writeBigUInt64LE() refuse it.
UsdcPrepare(recipient, amount) ==
    LET key == PublicKeyParse(recipient)
        usdcAmount == Floor(Times(ParseFloat(amount), USDC_UNITS))
    IN IF ~key.ok THEN Throw(key.thrown)
       ELSE IF IsNaN(usdcAmount) THEN Throw(BigIntRangeError)
       ELSE IF LtZero(usdcAmount) THEN Throw(OutOfRangeError)
       ELSE Ok

Prepare(f, recipient, amount) ==
    IF f = "sol" THEN SolPrepare(recipient, amount)
    ELSE UsdcPrepare(recipient, amount)

\* ------------------------------------- what signAndSendTransaction is given

SYSTEM_PROGRAM_ID == "11111111111111111111111111111111"

TOKEN_PROGRAM_ID == "TokenkegQfeZyiNwAJbNbGKPFXCWuBvf9Ss623VQ5DA"

ASSOCIATED_TOKEN_PROGRAM_ID == "ATokenGPvbdGVxr1b2hvZbsiqW5xWH25efTNsLJA8knL"

USDC_MINT_DEVNET == "Gh9ZwEmdLJ8DscKNTkTqPbNwLNNBjuSzaG9Vp2KGtKJr"

\* Whether the number x has no fractional part.
IsInteger(x) == ~x.nan /\ (x.exp >= 0 \/ x.mant % Pow10(0 - x.exp) = 0)

\* The magnitude of an integer number x.
IntValue(x) ==
    IF x.exp >= 0 THEN x.mant * Pow10(x.exp) ELSE x.mant \div Pow10(0 - x.exp)

\* The k low-order bytes of n, least significant first.
RECURSIVE LittleEndian(_, _)
LittleEndian(n, k) ==
    IF k = 0 THEN <<>> ELSE <<n % 256>> \o LittleEndian(n \div 256, k - 1)

\* The number k bytes spell, least significant first.
RECURSIVE FromLittleEndian(_)
FromLittleEndian(bytes) ==
    IF bytes = <<>> THEN 0 ELSE Head(bytes) + 256 * FromLittleEndian(Tail(bytes))

\* { pubkey, isSigner, isWritable }
AccountMeta(pubkey, isSigner, isWritable) ==
    [pubkey |-> pubkey, isSigner |-> isSigner, isWritable |-> isWritable]

\* getATA(mint, owner): the program-derived address of the seeds
\* (owner, TOKEN_PROGRAM_ID, mint) under the associated token program.
GetATA(mint, owner) ==
    [seeds |-> <<owner, TOKEN_PROGRAM_ID, mint>>,
     programId |-> ASSOCIATED_TOKEN_PROGRAM_ID]

\* Mutant of UsdcData: the amount is written at offset 0, over the
\* discriminator, and the last byte is left zero.
UsdcData_AmountAtZero(usdcAmount) == LittleEndian(IntValue(usdcAmount), 8) \o <<0>>

\* Buffer.alloc(9); writeUInt8(3, 0); writeBigUInt64LE(BigInt(usdcAmount), 1)
UsdcData(usdcAmount) == <<3>> \o LittleEndian(IntValue(usdcAmount), 8)

\* TransferForm: { instructions: [SystemProgram.transfer({fromPubkey,
\* toPubkey, lamports})] }.  The library encodes the data from lamports; the
\* number the form handed over is kept in quantity.
SolRequest(owner, recipient, amount) ==
    [instructions |->
        << [programId |-> SYSTEM_PROGRAM_ID,
            keys |-> << AccountMeta(owner, TRUE, TRUE),
                        AccountMeta(recipient, FALSE, TRUE) >>,
            quantity |-> Times(ParseFloat(amount), LAMPORTS_PER_SOL),
            data |-> <<>>] >>,
     feeToken |-> "none"]

\* USDCTransferForm: { instructions: [instruction],
\* transactionOptions: { feeToken: "USDC" } }.
UsdcRequest(owner, recipient, amount) ==
    LET usdcAmount == Floor(Times(ParseFloat(amount), USDC_UNITS))
    IN [instructions |->
           << [programId |-> TOKEN_PROGRAM_ID,
               keys |-> << AccountMeta(GetATA(USDC_MINT_DEVNET, owner), FALSE, TRUE),
                           AccountMeta(GetATA(USDC_MINT_DEVNET, recipient), FALSE, TRUE),
                           AccountMeta(owner, TRUE, FALSE) >>,
               quantity |-> usdcAmount,
               data |-> UsdcData(usdcAmount)] >>,
        feeToken |-> "USDC"]

\* How the installed @solana/web3.js turns lamports into instruction data:
\* "bigint" builds call BigInt(lamports), which throws for a fraction;
\* "layout" builds write the number into a 64-bit layout, dropping it.
Web3Builds == {"bigint", "layout"}

NotIntegerRangeError ==
    ErrorOf(<<"The", "number", "cannot", "be", "converted", "to", "a", "BigInt",
              "because", "it", "is", "not", "an", "integer">>)

\* SystemProgram.transfer throws on the lamports of this amount.
TransferEncodingThrows(f, lib, amount) ==
    /\ f = "sol"
    /\ lib = "bigint"
    /\ ~IsInteger(Times(ParseFloat(amount), LAMPORTS_PER_SOL))

\* The try block up to the await: the request it hands to
\* signAndSendTransaction, or what it throws.
Build(f, lib, owner, recipient, amount) ==
    LET p == Prepare(f, recipient, amount)
    IN IF ~p.ok THEN [ok |-> FALSE, thrown |-> p.thrown, request |-> NoRequest]
       ELSE IF TransferEncodingThrows(f, lib, amount)
       THEN [ok |-> FALSE, thrown |-> NotIntegerRangeError, request |-> NoRequest]
       ELSE [ok |-> TRUE, thrown |-> None,
             request |-> IF f = "sol" THEN SolRequest(owner, recipient, amount)
                         ELSE UsdcRequest(owner, recipient, amount)]

\* err instanceof Error ? err.message : fallback
TypedMessage(err, fallback) ==
    IF err.kind = "Error" THEN err.message ELSE fallback

\* err.message || fallback (err: any; err is not null or undefined)
AnyMessage(err, fallback) ==
    IF err.kind \in {"Error", "object"} /\ err.message # <<>>
    THEN err.message ELSE fallback

\* err.message?.includes(phrase), guarded by err instanceof Error ("typed")
\* or not ("any").
MessageIncludes(style, err, phrase) ==
    /\ err.kind \in (IF style = "typed" THEN {"Error"} ELSE {"Error", "object"})
    /\ Includes(err.message, phrase)

\* Mutant of SolCatch: the fallback text is set whatever was caught.
SolCatch_AlwaysFallback(err) == TransactionFailed

\* TransferForm catch: the error text it sets.
SolCatch(err) == TypedMessage(err, TransactionFailed)

\* USDCTransferForm catch: the error text it sets.
UsdcCatch(style, err) ==
    IF \/ MessageIncludes(style, err, <<"TokenAccountNotFoundError">>)
       \/ MessageIncludes(style, err, <<"AccountNotFound">>)
    THEN UsdcAccountNotFound
    ELSE IF MessageIncludes(style, err, <<"insufficient", "funds">>)
    THEN InsufficientUsdcBalance
    ELSE IF style = "typed" THEN TypedMessage(err, TransactionFailed)
    ELSE AnyMessage(err, TransactionFailed)

\* Whether the catch clause itself throws: with err: any, err.message is read
\* from null or undefined (a TypeError), and setError is never reached.
CatchThrows(style, err) == style = "any" /\ err.kind = "nullish"

\* The error cell after the catch clause ran on err (cur: the cell before).
CatchText(f, style, err, cur) ==
    IF CatchThrows(style, err) THEN cur
    ELSE IF f = "sol" THEN SolCatch(err)
    ELSE UsdcCatch(style, err)

\* setLoading(true); setError(""); setTxSignature("")
TransferStarted(form) ==
    [form EXCEPT !.loading = TRUE, !.error = <<>>, !.txSignature = ""]

\* Mutant of TransferSucceeded: the recipient field is not reset.
TransferSucceeded_KeepsRecipient(form, signature) ==
    [form EXCEPT !.txSignature = signature, !.amount = <<>>, !.loading = FALSE]

\* setTxSignature(signature); setRecipient(""); setAmount(""); then finally.
TransferSucceeded(form, signature) ==
    [form EXCEPT !.txSignature = signature, !.recipient = <<>>,
                 !.amount = <<>>, !.loading = FALSE]

\* Mutant of TransferFailed: no finally clause, loading is left as it was.
TransferFailed_NoFinally(form, text) == [form EXCEPT !.error = text]

\* catch: setError(text); then finally: setLoading(false).
TransferFailed(form, text) ==
    [form EXCEPT !.error = text, !.loading = FALSE]

\* Mutant of TransferNotConnected: the check comes after setLoading(true).
TransferNotConnected_AfterLoading(form) ==
    [form EXCEPT !.error = WalletNotConnected, !.loading = TRUE]

\* if (!smartWalletPubkey) { setError("Wallet not connected"); return; }
TransferNotConnected(form) == [form EXCEPT !.error = WalletNotConnected]

\* The form is rendered (instead of the connection prompt) iff isConnected.
FormRendered(f) == f \in mounted /\ isConnected

\* onChange of the recipient field.
SetRecipient(f, str) ==
    /\ FormRendered(f)
    /\ tf[f].recipient # str
    /\ tf' = [tf EXCEPT ![f].recipient = str]
    /\ UNCHANGED <<sessionVars, mounted, build, widgetVars, sm, pc, calls, settled, sent, signed>>

\* onChange of the amount field.
SetAmount(f, str) ==
    /\ FormRendered(f)
    /\ tf[f].amount # str
    /\ tf' = [tf EXCEPT ![f].amount = str]
    /\ UNCHANGED <<sessionVars, mounted, build, widgetVars, sm, pc, calls, settled, sent, signed>>

\* handleTransfer up to its first await (or to its end when it never awaits).
HandleTransfer(f) ==
    /\ FormRendered(f)
    /\ ~ButtonDisabled(tf[f].loading)
    /\ IF smartWalletPubkey = NoWallet
       THEN /\ tf' = [tf EXCEPT ![f] = TransferNotConnected(@)]
            /\ pc' = [pc EXCEPT ![f] = "notConnected"]
            /\ UNCHANGED <<calls, sent>>
       ELSE \E lib \in Web3Builds :
            LET p == Build(f, lib, smartWalletPubkey, tf[f].recipient, tf[f].amount)
                started == TransferStarted(tf[f])
            IN IF p.ok
               THEN /\ tf' = [tf EXCEPT ![f] = started]
                    /\ calls' = [calls EXCEPT ![f] = @ + 1]
                    /\ sent' = [sent EXCEPT ![f] = p.request]
                    /\ pc' = [pc EXCEPT ![f] = "awaiting"]
               ELSE /\ tf' = [tf EXCEPT ![f] =
                                TransferFailed(started,
                                    CatchText(f, build[f], p.thrown, started.error))]
                    /\ pc' = [pc EXCEPT ![f] = "invalid"]
                    /\ UNCHANGED <<calls, sent>>
    /\ settled' = [settled EXCEPT ![f] = None]
    /\ UNCHANGED <<sessionVars, mounted, build, widgetVars, sm, signed>>

\* signAndSendTransaction resolves with a signature; the handler resumes.
TransferResolved(f, signature) ==
    /\ calls[f] > 0
    /\ calls' = [calls EXCEPT ![f] = @ - 1]
    /\ tf' = [tf EXCEPT ![f] = TransferSucceeded(@, signature)]
    /\ pc' = [pc EXCEPT ![f] = "resolved"]
    /\ settled' = [settled EXCEPT ![f] = Resolved(signature)]
    /\ sent' = [sent EXCEPT ![f] = NoRequest]
    /\ UNCHANGED <<sessionVars, mounted, build, widgetVars, sm, signed>>

\* Mutant of TransferRejected: the failure also clears the account summary's
\* refresh flag.
TransferRejected_ClearsRefreshing(f, err) ==
    /\ calls[f] > 0
    /\ calls' = [calls EXCEPT ![f] = @ - 1]
    /\ tf' = [tf EXCEPT ![f] =
                TransferFailed(@, CatchText(f, build[f], err, @.error))]
    /\ pc' = [pc EXCEPT ![f] = "rejected"]
    /\ settled' = [settled EXCEPT ![f] = err]
    /\ sent' = [sent EXCEPT ![f] = NoRequest]
    /\ isRefreshing' = FALSE
    /\ UNCHANGED <<infoBuild, balance, hasFetched, balCalls, balSettled,
                   balStarted, balanceFrom, okSeq>>
    /\ UNCHANGED <<sessionVars, mounted, build, logVars, timeVars, themeVars, sm, signed>>

\* signAndSendTransaction rejects with err; the handler resumes in catch.
TransferRejected(f, err) ==
    /\ calls[f] > 0
    /\ calls' = [calls EXCEPT ![f] = @ - 1]
    /\ tf' = [tf EXCEPT ![f] =
                TransferFailed(@, CatchText(f, build[f], err, @.error))]
    /\ pc' = [pc EXCEPT ![f] = "rejected"]
    /\ settled' = [settled EXCEPT ![f] = err]
    /\ sent' = [sent EXCEPT ![f] = NoRequest]
    /\ UNCHANGED <<sessionVars, mounted, build, widgetVars, sm, signed>>

\* href of the "View on Explorer" link, rendered when txSignature is set.
ExplorerUrl(signature) ==
    <<"https://explorer.solana.com/tx/", signature, "?cluster=devnet">>

\* ------------------------------------------------------ message signing form

PleaseEnterMessage == <<"Please", "enter", "a", "message", "to", "sign">>

FailedToSignMessage == <<"Failed", "to", "sign", "message">>

\* SignMessage catch: the error text it sets.
SignCatch(style, err) ==
    IF style = "typed" THEN TypedMessage(err, FailedToSignMessage)
    ELSE AnyMessage(err, FailedToSignMessage)

SignCatchText(style, err, cur) ==
    IF CatchThrows(style, err) THEN cur ELSE SignCatch(style, err)

\* setLoading(true); setError(""); setSignature("")
SignStarted(form) ==
    [form EXCEPT !.loading = TRUE, !.error = <<>>, !.signature = ""]

\* Mutant of SignSucceeded: the message field is reset as well.
SignSucceeded_ClearsMessage(form, signature) ==
    [form EXCEPT !.signature = signature, !.message = <<>>, !.loading = FALSE]

\* setSignature(result.signature); then finally: setLoading(false).
SignSucceeded(form, signature) ==
    [form EXCEPT !.signature = signature, !.loading = FALSE]

\* catch: setError(text); then finally: setLoading(false).
SignFailed(form, text) ==
    [form EXCEPT !.error = text, !.loading = FALSE]

\* No signMessage call is outstanding.
NoArgument == [called |-> FALSE, message |-> <<>>]

\* Mutant of SignArgument: the message is trimmed before it is signed.
SignArgument_Trimmed(message) == [called |-> TRUE, message |-> Trim(message)]

\* signMessage(message): the argument is the message state as it stands.
SignArgument(message) == [called |-> TRUE, message |-> message]

\* onChange of the message field.
SetMessage(str) ==
    /\ FormRendered("sign")
    /\ sm.message # str
    /\ sm' = [sm EXCEPT !.message = str]
    /\ UNCHANGED <<sessionVars, mounted, build, widgetVars, tf, pc, calls, settled, sent, signed>>

\* Mutant of HandleSign: signMessage is called a second time in the same run.
HandleSign_InvokesTwice ==
    /\ FormRendered("sign")
    /\ ~ButtonDisabled(sm.loading)
    /\ IF Trim(sm.message) = <<>>
       THEN /\ sm' = [sm EXCEPT !.error = PleaseEnterMessage]
            /\ pc' = [pc EXCEPT !["sign"] = "invalid"]
            /\ UNCHANGED <<calls, signed>>
       ELSE /\ sm' = SignStarted(sm)
            /\ calls' = [calls EXCEPT !["sign"] = @ + 2]
            /\ signed' = SignArgument(sm.message)
            /\ pc' = [pc EXCEPT !["sign"] = "awaiting"]
    /\ settled' = [settled EXCEPT !["sign"] = None]
    /\ UNCHANGED <<sessionVars, mounted, build, widgetVars, tf, sent>>

\* handleSign up to its await (or to its early return).
HandleSign ==
    /\ FormRendered("sign")
    /\ ~ButtonDisabled(sm.loading)
    /\ IF Trim(sm.message) = <<>>
       THEN /\ sm' = [sm EXCEPT !.error = PleaseEnterMessage]
            /\ pc' = [pc EXCEPT !["sign"] = "invalid"]
            /\ UNCHANGED <<calls, signed>>
       ELSE /\ sm' = SignStarted(sm)
            /\ calls' = [calls EXCEPT !["sign"] = @ + 1]
            /\ signed' = SignArgument(sm.message)
            /\ pc' = [pc EXCEPT !["sign"] = "awaiting"]
    /\ settled' = [settled EXCEPT !["sign"] = None]
    /\ UNCHANGED <<sessionVars, mounted, build, widgetVars, tf, sent>>

\* signMessage resolves with {signature, signedPayload}; the handler resumes.
SignResolved(signature) ==
    /\ calls["sign"] > 0
    /\ calls' = [calls EXCEPT !["sign"] = @ - 1]
    /\ sm' = SignSucceeded(sm, signature)
    /\ pc' = [pc EXCEPT !["sign"] = "resolved"]
    /\ settled' = [settled EXCEPT !["sign"] = Resolved(signature)]
    /\ signed' = NoArgument
    /\ UNCHANGED <<sessionVars, mounted, build, widgetVars, tf, sent>>

\* signMessage rejects with err; the handler resumes in catch.
SignRejected(err) ==
    /\ calls["sign"] > 0
    /\ calls' = [calls EXCEPT !["sign"] = @ - 1]
    /\ sm' = SignFailed(sm, SignCatchText(build["sign"], err, sm.error))
    /\ pc' = [pc EXCEPT !["sign"] = "rejected"]
    /\ settled' = [settled EXCEPT !["sign"] = err]
    /\ signed' = NoArgument
    /\ UNCHANGED <<sessionVars, mounted, build, widgetVars, tf, sent>>

\* ------------------------------------------------- account summary (WalletInfo)

\* Variants of WalletInfo:
\*   "ref":    isRefreshing for the manual refresh, hasFetchedRef for the
\*             automatic fetch, which touches no flag;
\*   "shared": one loading flag set by both the automatic fetch and refresh.
InfoBuilds == {"ref", "shared"}

\* Lamports getBalance() may resolve with.
Balances == {0, 5000}

\* useState<number | null>(null): <<>> is null, <<n>> a value.
NoBalance == <<>>

Origins == {"effect", "refresh"}

\* No query: setBalance has stored nothing yet.
NoQuery == [origin |-> "none", address |-> NoWallet, seq |-> 0]

InfoInit ==
    /\ balance = NoBalance
    /\ isRefreshing = FALSE
    /\ hasFetched = FALSE
    /\ balCalls = <<>>
    /\ balSettled = [origin |-> "none", kind |-> "none"]
    /\ balStarted = [o \in Origins |-> 0]
    /\ balanceFrom = NoQuery
    /\ okSeq = 0

\* The getBalance() queries of this origin that have not settled.
Outstanding(origin) ==
    Cardinality({i \in 1..Len(balCalls) : balCalls[i].origin = origin})

\* Mutant of InfoDisplay: the "ref" variant also shows the skeleton while
\* a refresh is in flight.
InfoDisplay_SkeletonWhileRefreshing ==
    IF wallet = NoWallet THEN "prompt"
    ELSE IF infoBuild = "ref"
    THEN (IF balance = NoBalance \/ isRefreshing THEN "skeleton" ELSE "value")
    ELSE IF isRefreshing THEN "skeleton"
    ELSE IF balance # NoBalance THEN "value"
    ELSE "N/A"

\* What the balance card shows.  Neither variant has an error cell or an
\* error branch: "prompt" (no wallet), "skeleton", "value", or "N/A".
InfoDisplay ==
    IF wallet = NoWallet THEN "prompt"
    ELSE IF infoBuild = "ref"
    THEN (IF balance = NoBalance THEN "skeleton" ELSE "value")
    ELSE IF isRefreshing THEN "skeleton"
    ELSE IF balance # NoBalance THEN "value"
    ELSE "N/A"

\* connection.getBalance(address) is called: the promise is outstanding.
BalanceQueried(origin, address) ==
    /\ balStarted[origin] < MaxCalls
    /\ balStarted' = [balStarted EXCEPT ![origin] = @ + 1]
    /\ balCalls' = Append(balCalls,
                          [origin |-> origin, address |-> address,
                           seq |-> balStarted["effect"] + balStarted["refresh"] + 1])

\* useEffect(..., [smartWalletPubkey]) after a render in which the session's
\* account changed: fetchBalance() unless there is no account (or, in the
\* "ref" variant, a fetch already succeeded).
InfoEffect ==
    IF wallet' = NoWallet \/ wallet' = wallet
           \/ (infoBuild = "ref" /\ hasFetched)
    THEN UNCHANGED infoVars
    ELSE /\ BalanceQueried("effect", wallet')
         /\ isRefreshing' = IF infoBuild = "shared" THEN TRUE ELSE isRefreshing
         /\ UNCHANGED <<infoBuild, balance, hasFetched, balSettled, balanceFrom, okSeq>>

\* handleRefresh up to its await.
HandleRefresh ==
    /\ wallet # NoWallet
    /\ ~ButtonDisabled(isRefreshing)
    /\ smartWalletPubkey # NoWallet
    /\ isRefreshing' = TRUE
    /\ BalanceQueried("refresh", smartWalletPubkey)
    /\ UNCHANGED <<infoBuild, balance, hasFetched, balSettled, balanceFrom, okSeq>>
    /\ UNCHANGED <<sessionVars, mounted, build, formVars, logVars, timeVars, themeVars>>

\* The flag after a getBalance() call of this origin settled: finally
\* clears it, except in the automatic fetch of the "ref" variant.
FlagAfter(origin) ==
    IF origin = "effect" /\ infoBuild = "ref" THEN isRefreshing ELSE FALSE

\* A getBalance() query of this origin resolves:
\* setBalance(balanceLamports / LAMPORTS_PER_SOL).
BalanceResolved(origin, lamports) ==
    \E i \in 1..Len(balCalls) :
        /\ balCalls[i].origin = origin
        /\ balCalls' = RemoveAt(balCalls, i)
        /\ balance' = <<lamports>>
        /\ balanceFrom' = balCalls[i]
        /\ okSeq' = IF balCalls[i].seq > okSeq THEN balCalls[i].seq ELSE okSeq
        /\ hasFetched' = IF origin = "effect" /\ infoBuild = "ref" THEN TRUE ELSE hasFetched
        /\ isRefreshing' = FlagAfter(origin)
        /\ balSettled' = [origin |-> origin, kind |-> "resolved"]
        /\ UNCHANGED <<infoBuild, balStarted>>
        /\ UNCHANGED <<sessionVars, mounted, build, formVars, logVars, timeVars, themeVars>>

\* A getBalance() query of this origin rejects: catch logs to the console
\* and sets nothing.
BalanceRejected(origin, err) ==
    \E i \in 1..Len(balCalls) :
        /\ balCalls[i].origin = origin
        /\ balCalls' = RemoveAt(balCalls, i)
        /\ isRefreshing' = FlagAfter(origin)
        /\ balSettled' = [origin |-> origin, kind |-> "rejected"]
        /\ UNCHANGED <<infoBuild, balance, hasFetched, balStarted, balanceFrom, okSeq>>
        /\ UNCHANGED <<sessionVars, mounted, build, formVars, logVars, timeVars, themeVars>>

\* ---------------------------------------------------- activity feed (ActivityLog)

\* getSignaturesForAddress(pubkey, { limit: 10 })
HISTORY_LIMIT == 10

\* Most transactions the network holds for one account.
MaxHistory == 11

FailedToLoadHistory == <<"Failed", "to", "load", "history.">>

LogInit ==
    /\ activities = <<>>
    /\ logLoading = FALSE
    /\ logError = <<>>
    /\ logCalls = <<>>
    /\ logSettled = [kind |-> "none", query |-> [address |-> NoWallet, limit |-> 0],
                     response |-> <<>>]

\* The k-th transaction of an account as the RPC node reports it.
ConfirmedSignature(address, k) ==
    [signature |-> <<address, k>>, slot |-> k, blockTime |-> k]

\* What the RPC node answers to a query when the account has n transactions:
\* the newest first, at most query.limit of them.
RpcSignatures(query, n) ==
    LET count == IF n < query.limit THEN n ELSE query.limit
    IN [i \in 1..count |-> ConfirmedSignature(query.address, n + 1 - i)]

\* signatures.map((sig) => ({ ...sig, type: "interaction" }))
ToItems(signatures) ==
    [i \in 1..Len(signatures) |->
        [signature |-> signatures[i].signature,
         slot |-> signatures[i].slot,
         blockTime |-> signatures[i].blockTime,
         type |-> "interaction"]]

\* fetchActivity up to its await, for the session's account `address`.
FetchStarted(address) ==
    /\ Len(logCalls) < MaxCalls
    /\ logLoading' = TRUE
    /\ logError' = <<>>
    /\ logCalls' = Append(logCalls, [address |-> address, limit |-> HISTORY_LIMIT])
    /\ UNCHANGED <<activities, logSettled>>

\* useEffect(..., [fetchActivity, wallet?.smartWallet]) after a render in
\* which the session's account changed: fetchActivity() if there is one.
LogEffect ==
    IF wallet' = NoWallet \/ wallet' = wallet
    THEN UNCHANGED logVars
    ELSE FetchStarted(wallet')

\* onClick={fetchActivity} of the Refresh button.
ClickLogRefresh ==
    /\ wallet # NoWallet
    /\ ~ButtonDisabled(logLoading)
    /\ FetchStarted(wallet)
    /\ UNCHANGED <<sessionVars, mounted, build, formVars, infoVars, timeVars, themeVars>>

\* Mutant of LogResolved: the items are appended to the list.
LogResolved_Appends(i, n) ==
    /\ i \in 1..Len(logCalls)
    /\ LET response == RpcSignatures(logCalls[i], n)
       IN /\ activities' = activities \o ToItems(response)
          /\ logSettled' = [kind |-> "resolved", query |-> logCalls[i],
                            response |-> response]
    /\ logCalls' = RemoveAt(logCalls, i)
    /\ logLoading' = FALSE
    /\ UNCHANGED logError
    /\ UNCHANGED <<sessionVars, mounted, build, formVars, infoVars, timeVars, themeVars>>

\* The i-th outstanding query resolves while the account has n transactions:
\* setActivities(items), then finally.
LogResolved(i, n) ==
    /\ i \in 1..Len(logCalls)
    /\ LET response == RpcSignatures(logCalls[i], n)
       IN /\ activities' = ToItems(response)
          /\ logSettled' = [kind |-> "resolved", query |-> logCalls[i],
                            response |-> response]
    /\ logCalls' = RemoveAt(logCalls, i)
    /\ logLoading' = FALSE
    /\ UNCHANGED logError
    /\ UNCHANGED <<sessionVars, mounted, build, formVars, infoVars, timeVars, themeVars>>

\* The i-th outstanding query rejects: setError("Failed to load history."),
\* then finally.
LogRejected(i, err) ==
    /\ i \in 1..Len(logCalls)
    /\ logError' = FailedToLoadHistory
    /\ logSettled' = [kind |-> "rejected", query |-> logCalls[i], response |-> <<>>]
    /\ logCalls' = RemoveAt(logCalls, i)
    /\ logLoading' = FALSE
    /\ UNCHANGED activities
    /\ UNCHANGED <<sessionVars, mounted, build, formVars, infoVars, timeVars, themeVars>>

\* ----------------------------------------------------------- getTimeAgo

\* Most whole days between a block time and the moment it is rendered.
MaxDays == 2

\* Seconds in a minute, an hour, a day: the thresholds of getTimeAgo.
MINUTE == 60

HOUR == 3600

DAY == 86400

\* Block time of the rendered transaction (seconds); 0 stands for a missing
\* one (null, undefined and 0 are all falsy).
Timestamps == {0, 1000}

\* Seconds between the block time and the render: around every threshold,
\* and a block time slightly ahead of the local clock.
ElapsedSeconds ==
    {0 - 5, 0, 1, 30, 59, 60, 61, 119, 120, 300, 3540, 3599,
     3600, 3601, 7199, 7200, 10800, 82800, 86399}
        \cup {d * DAY : d \in 1..MaxDays}
        \cup {d * DAY + 1 : d \in 1..MaxDays}
        \cup {d * DAY + DAY - 1 : d \in 1..MaxDays}

\* Date.now() values (milliseconds), relative to block time 1000.
ClockValues ==
    {(1000 + e) * 1000 + ms : e \in ElapsedSeconds, ms \in {0, 999}}

\* Math.floor(a / b) for b > 0 (\div rounds down in TLA+).
FloorDiv(a, b) == a \div b

NotRendered == [n |-> 0, unit |-> ""]

\* Mutant of GetTimeAgo: the first threshold is compared with <=.
GetTimeAgo_MinuteInclusive(now, t) ==
    IF t = 0 THEN [n |-> 0, unit |-> "Unknown time"]
    ELSE LET diff == FloorDiv(now - t * 1000, 1000)
         IN IF diff <= MINUTE THEN [n |-> 0, unit |-> "Just now"]
            ELSE IF diff < HOUR THEN [n |-> FloorDiv(diff, MINUTE), unit |-> "m ago"]
            ELSE IF diff < DAY THEN [n |-> FloorDiv(diff, HOUR), unit |-> "h ago"]
            ELSE [n |-> FloorDiv(diff, DAY), unit |-> "d ago"]

\* Mutant of GetTimeAgo: the "Just now" branch is missing.
GetTimeAgo_NoJustNow(now, t) ==
    IF t = 0 THEN [n |-> 0, unit |-> "Unknown time"]
    ELSE LET diff == FloorDiv(now - t * 1000, 1000)
         IN IF diff < HOUR THEN [n |-> FloorDiv(diff, MINUTE), unit |-> "m ago"]
            ELSE IF diff < DAY THEN [n |-> FloorDiv(diff, HOUR), unit |-> "h ago"]
            ELSE [n |-> FloorDiv(diff, DAY), unit |-> "d ago"]

\* getTimeAgo(timestamp) at Date.now() = now.
GetTimeAgo(now, t) ==
    IF t = 0 THEN [n |-> 0, unit |-> "Unknown time"]
    ELSE LET diff == FloorDiv(now - t * 1000, 1000)
         IN IF diff < MINUTE THEN [n |-> 0, unit |-> "Just now"]
            ELSE IF diff < HOUR THEN [n |-> FloorDiv(diff, MINUTE), unit |-> "m ago"]
            ELSE IF diff < DAY THEN [n |-> FloorDiv(diff, HOUR), unit |-> "h ago"]
            ELSE [n |-> FloorDiv(diff, DAY), unit |-> "d ago"]

TimeInit ==
    /\ clock = 0
    /\ timestamp = 0
    /\ timeAgo = NotRendered

\* A row of the feed is rendered.
RenderTimeAgo ==
    /\ timeAgo' = GetTimeAgo(clock, timestamp)
    /\ timeAgo' # timeAgo
    /\ UNCHANGED <<clock, timestamp>>
    /\ UNCHANGED <<sessionVars, mounted, build, formVars, infoVars, logVars, themeVars>>

\* Time passes before the next render.
ClockAdvances(now) ==
    /\ now > clock
    /\ clock' = now
    /\ UNCHANGED <<timestamp, timeAgo>>
    /\ UNCHANGED <<sessionVars, mounted, build, formVars, infoVars, logVars, themeVars>>

\* ----------------------------------------------------------- ThemeToggle

\* localStorage.getItem("theme"): <<>> is null (no item), <<v>> the string v.
NoItem == <<>>

\* What the item may hold when the page loads: nothing, the empty string,
\* the two values toggleTheme writes, and a value it never writes.
SavedThemes == {NoItem, <<"">>, <<"light">>, <<"dark">>, <<"system">>}

\* if (savedTheme): null and "" are falsy.
Truthy(item) == item # NoItem /\ item # <<"">>

\* First render, before the mount effect: useState(true), <html lang="en">.
ThemeIdle ==
    /\ isDark = TRUE
    /\ savedTheme = NoItem
    /\ rootLight = FALSE
    /\ themePc = "init"

\* useEffect(() => { ... }, []): the saved preference is applied.
ThemeMountEffect ==
    /\ themePc = "init"
    /\ themePc' = "mounted"
    /\ IF Truthy(savedTheme)
       THEN /\ isDark' = (savedTheme = <<"dark">>)
            /\ rootLight' = (savedTheme = <<"light">>)
       ELSE UNCHANGED <<isDark, rootLight>>
    /\ UNCHANGED savedTheme
    /\ UNCHANGED <<sessionVars, mounted, build, formVars, infoVars, logVars, timeVars>>

\* onClick={toggleTheme}
ToggleTheme ==
    /\ themePc = "mounted"
    /\ LET newTheme == IF isDark THEN "light" ELSE "dark"
       IN /\ isDark' = ~isDark
          /\ savedTheme' = <<newTheme>>
          /\ rootLight' = (newTheme = "light")
    /\ UNCHANGED themePc
    /\ UNCHANGED <<sessionVars, mounted, build, formVars, infoVars, logVars, timeVars>>

\* The page is loaded again: the component state and the document start
\* over, localStorage persists.
ThemeReload ==
    /\ themePc = "mounted"
    /\ themePc' = "init"
    /\ isDark' = TRUE
    /\ rootLight' = FALSE
    /\ UNCHANGED savedTheme
    /\ UNCHANGED <<sessionVars, mounted, build, formVars, infoVars, logVars, timeVars>>

\* ----------------------------------------------------------- specifications

\* The account summary, the activity feed and the time label are not on the
\* page.
WidgetsIdle ==
    /\ infoBuild = "ref"
    /\ InfoInit
    /\ LogInit
    /\ TimeInit
    /\ ThemeIdle

\* One action form on the page, driven through a live session.  The
\* rejections of connect()/disconnect() touch no form and are left to
\* SpecConn.
InitForms ==
    /\ SessionInit
    /\ FormsInit
    /\ WidgetsIdle
    /\ \E f \in Forms, b \in Builds :
          /\ mounted = {f}
          /\ build = b
          /\ \A g \in Forms \ {f} : b[g] = "typed"

NextForms ==
    \/ ClickConnect /\ UNCHANGED <<mounted, build, formVars, widgetVars>>
    \/ \E a \in Accounts : ConnectResolved(a) /\ UNCHANGED <<mounted, build, formVars, widgetVars>>
    \/ ClickDisconnect /\ UNCHANGED <<mounted, build, formVars, widgetVars>>
    \/ DisconnectResolved /\ UNCHANGED <<mounted, build, formVars, widgetVars>>
    \/ \E f \in TransferForms, str \in RecipientStrings : SetRecipient(f, str)
    \/ \E f \in TransferForms, str \in AmountStrings : SetAmount(f, str)
    \/ \E f \in TransferForms : HandleTransfer(f)
    \/ \E f \in TransferForms, sig \in Signatures : TransferResolved(f, sig)
    \/ \E f \in TransferForms, err \in Thrown : TransferRejected(f, err)
    \/ \E str \in MessageStrings : SetMessage(str)
    \/ HandleSign
    \/ \E sig \in Signatures : SignResolved(sig)
    \/ \E err \in Thrown : SignRejected(err)

SpecForms == InitForms /\ [][NextForms]_vars

\* The connection control alone.
InitConn ==
    /\ SessionInit
    /\ FormsInit
    /\ WidgetsIdle
    /\ mounted = {}
    /\ build = [f \in Forms |-> "typed"]

NextConn ==
    \/ ClickConnect /\ UNCHANGED <<mounted, build, formVars, widgetVars>>
    \/ \E a \in Accounts : ConnectResolved(a) /\ UNCHANGED <<mounted, build, formVars, widgetVars>>
    \/ \E err \in Thrown : ConnectRejected(err) /\ UNCHANGED <<mounted, build, formVars, widgetVars>>
    \/ ClickDisconnect /\ UNCHANGED <<mounted, build, formVars, widgetVars>>
    \/ DisconnectResolved /\ UNCHANGED <<mounted, build, formVars, widgetVars>>
    \/ \E err \in Thrown : DisconnectRejected(err) /\ UNCHANGED <<mounted, build, formVars, widgetVars>>

SpecConn == InitConn /\ [][NextConn]_vars

\* Values a promise may reject with, where the catch clause does not look
\* at them: an Error and a primitive.
PageThrown == {ErrorOf(<<"User", "rejected">>), [kind |-> "primitive", message |-> <<>>]}

\* The account summary under a live session.
InitInfo ==
    /\ SessionInit
    /\ FormsInit
    /\ mounted = {}
    /\ build = [f \in Forms |-> "typed"]
    /\ infoBuild \in InfoBuilds
    /\ InfoInit
    /\ LogInit
    /\ TimeInit
    /\ ThemeIdle

NextInfo ==
    \/ ClickConnect /\ UNCHANGED <<mounted, build, formVars, widgetVars>>
    \/ \E a \in Accounts :
          ConnectResolved(a) /\ InfoEffect
              /\ UNCHANGED <<mounted, build, formVars, logVars, timeVars, themeVars>>
    \/ ClickDisconnect /\ UNCHANGED <<mounted, build, formVars, widgetVars>>
    \/ DisconnectResolved /\ InfoEffect
          /\ UNCHANGED <<mounted, build, formVars, logVars, timeVars, themeVars>>
    \/ HandleRefresh
    \/ \E o \in Origins, b \in Balances : BalanceResolved(o, b)
    \/ \E o \in Origins, err \in PageThrown : BalanceRejected(o, err)

SpecInfo == InitInfo /\ [][NextInfo]_vars

\* The activity feed under a live session.
InitLog ==
    /\ SessionInit
    /\ FormsInit
    /\ mounted = {}
    /\ build = [f \in Forms |-> "typed"]
    /\ WidgetsIdle

NextLog ==
    \/ ClickConnect /\ UNCHANGED <<mounted, build, formVars, widgetVars>>
    \/ \E a \in Accounts :
          ConnectResolved(a) /\ LogEffect
              /\ UNCHANGED <<mounted, build, formVars, infoVars, timeVars, themeVars>>
    \/ ClickDisconnect /\ UNCHANGED <<mounted, build, formVars, widgetVars>>
    \/ DisconnectResolved /\ LogEffect
          /\ UNCHANGED <<mounted, build, formVars, infoVars, timeVars, themeVars>>
    \/ ClickLogRefresh
    \/ \E i \in 1..MaxCalls, n \in 0..MaxHistory : LogResolved(i, n)
    \/ \E i \in 1..MaxCalls, err \in Thrown : LogRejected(i, err)

SpecLog == InitLog /\ [][NextLog]_vars

\* getTimeAgo over block times and clocks.
InitTime ==
    /\ SessionInit
    /\ FormsInit
    /\ mounted = {}
    /\ build = [f \in Forms |-> "typed"]
    /\ infoBuild = "ref"
    /\ InfoInit
    /\ LogInit
    /\ clock \in ClockValues
    /\ timestamp \in Timestamps
    /\ timeAgo = NotRendered
    /\ ThemeIdle

NextTime ==
    \/ RenderTimeAgo
    \/ \E now \in ClockValues : ClockAdvances(now)

SpecTime == InitTime /\ [][NextTime]_vars

\* A page with the SOL transfer form, the account summary and the activity
\* feed side by side, so that their calls overlap; the session connects once
\* and stays connected.
PageRecipients == {<<>>, Repeat("1", PUBLIC_KEY_LENGTH)}

PageAmounts == {<<>>, <<"1">>}

InitPage ==
    /\ SessionInit
    /\ FormsInit
    /\ mounted = {"sol"}
    /\ build = [f \in Forms |-> "typed"]
    /\ infoBuild \in InfoBuilds
    /\ InfoInit
    /\ LogInit
    /\ TimeInit
    /\ ThemeIdle

NextPage ==
    \/ ClickConnect /\ UNCHANGED <<mounted, build, formVars, widgetVars>>
    \/ ConnectResolved("acctA") /\ InfoEffect /\ LogEffect
          /\ UNCHANGED <<mounted, build, formVars, timeVars, themeVars>>
    \/ \E str \in PageRecipients : SetRecipient("sol", str)
    \/ \E str \in PageAmounts : SetAmount("sol", str)
    \/ HandleTransfer("sol")
    \/ TransferResolved("sol", "SIG999")
    \/ \E err \in PageThrown : TransferRejected("sol", err)
    \/ HandleRefresh
    \/ \E o \in Origins : BalanceResolved(o, 5000)
    \/ \E o \in Origins, err \in PageThrown : BalanceRejected(o, err)
    \/ ClickLogRefresh
    \/ \E i \in 1..MaxCalls : LogResolved(i, 1)
    \/ \E i \in 1..MaxCalls, err \in PageThrown : LogRejected(i, err)

SpecPage == InitPage /\ [][NextPage]_vars

\* The page header: the theme toggle next to the connection control.  Only
\* a full page load resets the toggle, and that is not modelled together
\* with a live session: ThemeReload requires the session to be idle.
InitTheme ==
    /\ SessionInit
    /\ FormsInit
    /\ mounted = {}
    /\ build = [f \in Forms |-> "typed"]
    /\ infoBuild = "ref"
    /\ InfoInit
    /\ LogInit
    /\ TimeInit
    /\ isDark = TRUE
    /\ savedTheme \in SavedThemes
    /\ rootLight = FALSE
    /\ themePc = "init"

NextTheme ==
    \/ ThemeMountEffect
    \/ ToggleTheme
    \/ ThemeReload /\ ~isConnected /\ connCalls = 0 /\ discCalls = 0
    \/ ClickConnect /\ UNCHANGED <<mounted, build, formVars, widgetVars>>
    \/ \E a \in Accounts : ConnectResolved(a) /\ UNCHANGED <<mounted, build, formVars, widgetVars>>
    \/ \E err \in Thrown : ConnectRejected(err) /\ UNCHANGED <<mounted, build, formVars, widgetVars>>
    \/ ClickDisconnect /\ UNCHANGED <<mounted, build, formVars, widgetVars>>
    \/ DisconnectResolved /\ UNCHANGED <<mounted, build, formVars, widgetVars>>
    \/ \E err \in Thrown : DisconnectRejected(err) /\ UNCHANGED <<mounted, build, formVars, widgetVars>>

SpecTheme == InitTheme /\ [][NextTheme]_vars

\* A transfer form rendered from whatever snapshot useWallet() returns:
\* isConnected and smartWalletPubkey are separate fields of the hook.
HookRecipients == {<<>>, Repeat("1", PUBLIC_KEY_LENGTH)}

HookAmounts == {<<>>, <<"1">>}

\* The SDK publishes a new snapshot of the session.
SessionSnapshot(connected, account) ==
    /\ <<connected, account>> # <<isConnected, wallet>>
    /\ isConnected' = connected
    /\ wallet' = account
    /\ UNCHANGED <<isConnecting, connCalls, discCalls, connSettled>>

InitHook ==
    /\ SessionInit
    /\ FormsInit
    /\ WidgetsIdle
    /\ \E f \in TransferForms :
          /\ mounted = {f}
          /\ build = [g \in Forms |-> "typed"]

NextHook ==
    \/ \E c \in BOOLEAN, w \in Accounts \cup {NoWallet} :
          SessionSnapshot(c, w) /\ UNCHANGED <<mounted, build, formVars, widgetVars>>
    \/ \E f \in TransferForms, str \in HookRecipients : SetRecipient(f, str)
    \/ \E f \in TransferForms, str \in HookAmounts : SetAmount(f, str)
    \/ \E f \in TransferForms : HandleTransfer(f)
    \/ \E f \in TransferForms, sig \in Signatures : TransferResolved(f, sig)
    \/ \E f \in TransferForms, err \in PageThrown : TransferRejected(f, err)

SpecHook == InitHook /\ [][NextHook]_vars

\* ------------------------------------------------------------------ display

\* The loading flag of form f in the cells (t, m).
LoadingOf(t, m, f) == IF f = "sign" THEN m.loading ELSE t[f].loading

\* The text of form f's error box ({error && ...}) in the cells (t, m).
ErrorTextOf(t, m, f) == IF f = "sign" THEN m.error ELSE t[f].error

\* The success payload form f shows ({txSignature && ...}, {signature && ...}).
PayloadOf(t, m, f) == IF f = "sign" THEN m.signature ELSE t[f].txSignature

\* A step in which form f's awaited call settles: resolves, or rejects.
StepResolved(f) == calls'[f] < calls[f] /\ settled'[f].kind = "resolved"

StepRejected(f) == calls'[f] < calls[f] /\ settled'[f].kind # "resolved"

\* ------------------------------------------------------------------- claims

\* parseFloat(amount) * LAMPORTS_PER_SOL is NaN or <= 0.
SolAmountBad(amount) ==
    LET v == Times(ParseFloat(amount), LAMPORTS_PER_SOL)
    IN v.nan \/ v.mant = 0 \/ v.neg

\* Math.floor(parseFloat(amount) * 1_000_000) is NaN or <= 0.
UsdcAmountBad(amount) ==
    LET v == Floor(Times(ParseFloat(amount), USDC_UNITS))
    IN v.nan \/ v.mant = 0 \/ v.neg

\* C1: a submission of the SOL transfer form whose amount parses to NaN or
\* to a value <= 0 ends with a non-empty error, loading false, and without
\* a call of signAndSendTransaction.
C1_SolRejectsBadAmount ==
    [][(HandleTransfer("sol") /\ SolAmountBad(tf["sol"].amount))
         => /\ tf'["sol"].error # <<>>
            /\ ~tf'["sol"].loading
            /\ calls'["sol"] = calls["sol"]
            /\ pc'["sol"] # "awaiting"]_vars

\* C1 witness: the SOL form stands rejected with "Invalid amount" on a
\* well-formed recipient and a non-positive amount, nothing outstanding.
C1_Witness ==
    /\ pc["sol"] = "invalid"
    /\ PublicKeyParse(tf["sol"].recipient).ok
    /\ tf["sol"].amount = <<"-", "0">>
    /\ tf["sol"].error = InvalidAmount
    /\ calls["sol"] = 0

\* C2 (as claimed): a submission of the USDC transfer form whose amount is
\* NaN or scales to a micro-unit count <= 0 ends with a non-empty error and
\* without a call of signAndSendTransaction.
C2_UsdcRejectsBadAmount ==
    [][(HandleTransfer("usdc") /\ UsdcAmountBad(tf["usdc"].amount))
         => /\ tf'["usdc"].error # <<>>
            /\ calls'["usdc"] = calls["usdc"]]_vars

\* C3: in both transfer forms a submission whose recipient fails address
\* parsing ends with a non-empty message, loading false, and without a call
\* of signAndSendTransaction, whatever the amount.
C3_BadRecipientRejected ==
    [][\A f \in TransferForms :
          (HandleTransfer(f) /\ ~PublicKeyParse(tf[f].recipient).ok)
            => /\ tf'[f].error # <<>>
               /\ ~tf'[f].loading
               /\ calls'[f] = calls[f]
               /\ pc'[f] # "awaiting"]_vars

\* C3 witness: the USDC form stands rejected on a recipient one byte short,
\* with an amount it would have sent.
C3_Witness ==
    /\ pc["usdc"] = "invalid"
    /\ tf["usdc"].recipient = Repeat("1", PUBLIC_KEY_LENGTH - 1)
    /\ tf["usdc"].amount = <<"1">>
    /\ tf["usdc"].error = <<"Invalid", "public", "key", "input">>
    /\ ~tf["usdc"].loading
    /\ calls["usdc"] = 0

\* C4: in both transfer forms, the step in which signAndSendTransaction
\* resolves with S leaves txSignature = S (shown with an explorer link whose
\* URL contains S), recipient and amount empty, no error, loading false.
C4_SuccessResetsForm ==
    [][\A f \in TransferForms :
          StepResolved(f)
            => /\ <<tf'[f].txSignature>> = settled'[f].message
               /\ tf'[f].txSignature # ""
               /\ Includes(ExplorerUrl(tf'[f].txSignature), settled'[f].message)
               /\ tf'[f].recipient = <<>>
               /\ tf'[f].amount = <<>>
               /\ tf'[f].error = <<>>
               /\ ~tf'[f].loading]_vars

\* C4 witness: the SOL form right after a call resolved with SIG999.
C4_Witness ==
    /\ pc["sol"] = "resolved"
    /\ settled["sol"] = Resolved("SIG999")
    /\ tf["sol"] = [TransferFormInit EXCEPT !.txSignature = "SIG999"]

\* C5 (as claimed): in both transfer forms, the step in which the external
\* call rejects leaves recipient and amount as they were and txSignature
\* empty, shows a non-empty error, and ends with loading false.
C5_RejectionKeepsFields ==
    [][\A f \in TransferForms :
          StepRejected(f)
            => /\ tf'[f].recipient = tf[f].recipient
               /\ tf'[f].amount = tf[f].amount
               /\ tf'[f].txSignature = ""
               /\ tf'[f].error # <<>>
               /\ ~tf'[f].loading]_vars

\* C6: in each action form loading is true (and the submit control
\* disabled) in every state in which the form's external call is
\* outstanding, and false in the state right after the call settles.
C6_LoadingWhileOutstanding ==
    [][\A f \in Forms :
          /\ calls'[f] > 0
               => LoadingOf(tf', sm', f) /\ ButtonDisabled(LoadingOf(tf', sm', f))
          /\ calls'[f] < calls[f] => ~LoadingOf(tf', sm', f)]_vars

\* C6 witness: signMessage is outstanding and the signing form is loading.
C6_Witness ==
    /\ calls["sign"] = 1
    /\ pc["sign"] = "awaiting"
    /\ sm.loading

\* C7 (as claimed): no control has more than one call of its own
\* outstanding: each form's submit, Connect and Disconnect.
C7_OneCallPerControl ==
    /\ \A f \in Forms : calls[f] <= 1
    /\ connCalls <= 1
    /\ discCalls <= 1

C9_SignClearsMessage ==
    [][StepResolved("sign")
         => /\ <<sm'.signature>> = settled'["sign"].message
            /\ sm'.message = <<>>]_vars

\* C9 (amended): the step in which signMessage resolves stores the returned
\* signature, which is then displayed, and leaves the message field as it
\* was.
C9_SignKeepsMessage ==
    [][StepResolved("sign")
         => /\ <<sm'.signature>> = settled'["sign"].message
            /\ sm'.signature # ""
            /\ sm'.message = sm.message]_vars

\* C9 witness: the signing form shows SIG999 with its message still there.
C9_Witness ==
    /\ pc["sign"] = "resolved"
    /\ settled["sign"] = Resolved("SIG999")
    /\ sm.signature = "SIG999"
    /\ sm.message = <<"a">>

\* C10 (as claimed): after connect() or disconnect() rejected with an Error
\* carrying a message, the connection control shows that message.
C10_ConnectErrorShown ==
    (/\ connSettled.call \in {"connect", "disconnect"}
     /\ connSettled.value.kind = "Error"
     /\ connSettled.value.message # <<>>)
        => ConnectButtonErrorText = connSettled.value.message

\* The submit handler of form f runs in this step.
Submit(f) == IF f = "sign" THEN HandleSign ELSE HandleTransfer(f)

\* The generic text of form f's catch clause.
FallbackOf(f) == IF f = "sign" THEN FailedToSignMessage ELSE TransactionFailed

\* x is an integer above zero.
IsPositiveInteger(x) == IsInteger(x) /\ ~x.neg /\ x.mant # 0

\* disconnected, connecting or connected, as the connection control shows it.
Phase(connected, connecting, account) ==
    IF connected /\ account # NoWallet THEN "connected"
    ELSE IF connecting THEN "connecting"
    ELSE "disconnected"

\* C11 (as claimed): whenever a balance query of the account summary,
\* automatic or manual, has rejected, the summary is in an error state that
\* it renders.
C11_BalanceErrorRendered ==
    balSettled.kind = "rejected" => InfoDisplay = "error"

\* C12: exactly one of Connect and Disconnect is rendered, Disconnect iff the
\* session is connected with a wallet; connect() is only started from the
\* disconnected state with no connect in flight; disconnect() is only
\* started from the connected state; and the session only moves
\* disconnected -> connecting -> connected, connected -> disconnected, and
\* connecting -> disconnected when connect() rejects.
C12_ConnectionLifecycle ==
    [][LET before == Phase(isConnected, isConnecting, wallet)
           after == Phase(isConnected', isConnecting', wallet')
       IN /\ ConnectRendered' # DisconnectRendered'
          /\ DisconnectRendered' <=> (isConnected' /\ wallet' # NoWallet)
          /\ connCalls' > connCalls
               => /\ ~isConnecting
                  /\ connCalls = 0
                  /\ before = "disconnected"
                  /\ after = "connecting"
          /\ discCalls' > discCalls => before = "connected"
          /\ before # after
               => \/ <<before, after>> \in {<<"disconnected", "connecting">>,
                                            <<"connecting", "connected">>,
                                            <<"connected", "disconnected">>}
                  \/ /\ <<before, after>> = <<"connecting", "disconnected">>
                     /\ connCalls' < connCalls
                     /\ connSettled'.call = "connect"]_vars

\* C12 witness: a connect() is in flight, started after a full
\* connect/disconnect round whose second disconnect() is still outstanding.
C12_Witness ==
    /\ isConnecting
    /\ connCalls = 1
    /\ discCalls = 1
    /\ ~isConnected
    /\ ConnectRendered

C14_FailureIsLocal ==
    [][/\ (\E f \in TransferForms :
              tf'[f].error # tf[f].error /\ tf'[f].error # <<>>)
          => /\ UNCHANGED <<sessionVars, infoVars, logVars, sm>>
             /\ \A f \in TransferForms :
                   tf'[f].error = tf[f].error => tf'[f] = tf[f]
       /\ (balSettled'.kind = "rejected" /\ balCalls' # balCalls)
          => UNCHANGED <<sessionVars, formVars, logVars>>
       /\ (logSettled'.kind = "rejected" /\ logCalls' # logCalls)
          => UNCHANGED <<sessionVars, formVars, infoVars>>]_vars

\* C14 witness: the transfer failed while a manual balance refresh was in
\* flight, and the refresh is still in flight.
C14_Witness ==
    /\ pc["sol"] = "rejected"
    /\ tf["sol"].error = <<"User", "rejected">>
    /\ Outstanding("refresh") = 1
    /\ isRefreshing

\* C15: for a block time t > 0 not after the clock, with d the whole
\* seconds elapsed: d < 60 renders "Just now"; 60 <= d < 3600 renders
\* floor(d / 60) "m ago" (1..59); 3600 <= d < 86400 renders floor(d / 3600)
\* "h ago" (1..23); d >= 86400 renders floor(d / 86400) "d ago" (>= 1).
C15_TimeBuckets ==
    [][(timeAgo' # timeAgo /\ timestamp > 0 /\ clock >= timestamp * 1000)
          => LET d == (clock - timestamp * 1000) \div 1000
             IN /\ d < 60 => timeAgo' = [n |-> 0, unit |-> "Just now"]
                /\ (60 <= d /\ d < 3600)
                      => /\ timeAgo' = [n |-> d \div 60, unit |-> "m ago"]
                         /\ timeAgo'.n \in 1..59
                /\ (3600 <= d /\ d < 86400)
                      => /\ timeAgo' = [n |-> d \div 3600, unit |-> "h ago"]
                         /\ timeAgo'.n \in 1..23
                /\ d >= 86400
                      => /\ timeAgo' = [n |-> d \div 86400, unit |-> "d ago"]
                         /\ timeAgo'.n >= 1]_vars

\* C15 witness: a block time five minutes old is rendered as "5m ago".
C15_Witness ==
    /\ timestamp = 1000
    /\ clock = (1000 + 300) * 1000
    /\ timeAgo = [n |-> 5, unit |-> "m ago"]

\* C16: every history query the feed starts is for the session's account
\* with limit 10; when one resolves, the list becomes exactly the mapped
\* response, in its order, whatever the list held; the list never holds
\* more than 10 items.
C16_FetchReplacesList ==
    [][/\ Len(activities') <= 10
       /\ Len(logCalls') > Len(logCalls)
            => /\ logCalls' = Append(logCalls, [address |-> wallet', limit |-> 10])
               /\ wallet' # NoWallet
       /\ (Len(logCalls') < Len(logCalls) /\ logSettled'.kind = "resolved")
            => /\ Len(activities') = Len(logSettled'.response)
               /\ \A i \in 1..Len(activities') :
                     /\ activities'[i].signature = logSettled'.response[i].signature
                     /\ activities'[i].signature[1] = logSettled'.query.address]_vars

\* C16 witness: the account has 11 transactions and the list holds the 10
\* newest, newest first.
C16_Witness ==
    /\ logSettled.kind = "resolved"
    /\ Len(activities) = 10
    /\ activities[1].slot = 11
    /\ activities[10].slot = 2

\* C17 (as claimed): the quantity in every instruction handed to
\* signAndSendTransaction is a positive integer number of minor units.
C17_PositiveIntegerQuantity ==
    \A f \in TransferForms :
        \A i \in 1..Len(sent[f].instructions) :
            IsPositiveInteger(sent[f].instructions[i].quantity)

\* C18: the USDC form hands signAndSendTransaction one instruction of the
\* token program with fee token "USDC"; its data is 9 bytes, byte 0 = 3 and
\* bytes 1..8 the micro-units of the submitted amount as a little-endian
\* unsigned 64-bit integer; its keys are the sender's sub-account (writable,
\* not signer), the recipient's sub-account (writable, not signer) and the
\* owner (signer, not writable), both sub-accounts derived from the seeds
\* (owner, token program, USDC mint).
C18_UsdcInstruction ==
    [][calls'["usdc"] > calls["usdc"]
          => LET request == sent'["usdc"]
                 ins == request.instructions[1]
                 micro == Floor(Times(ParseFloat(tf["usdc"].amount), 1000000))
             IN /\ Len(request.instructions) = 1
                /\ request.feeToken = "USDC"
                /\ ins.programId = TOKEN_PROGRAM_ID
                /\ Len(ins.data) = 9
                /\ \A k \in 1..9 : ins.data[k] \in 0..255
                /\ ins.data[1] = 3
                /\ FromLittleEndian(SubSeq(ins.data, 2, 9)) = micro.mant * Pow10(micro.exp)
                /\ Len(ins.keys) = 3
                /\ ins.keys[1] =
                      [pubkey |-> [seeds |-> <<wallet, TOKEN_PROGRAM_ID, USDC_MINT_DEVNET>>,
                                   programId |-> ASSOCIATED_TOKEN_PROGRAM_ID],
                       isSigner |-> FALSE, isWritable |-> TRUE]
                /\ ins.keys[2] =
                      [pubkey |-> [seeds |-> <<tf["usdc"].recipient, TOKEN_PROGRAM_ID,
                                               USDC_MINT_DEVNET>>,
                                   programId |-> ASSOCIATED_TOKEN_PROGRAM_ID],
                       isSigner |-> FALSE, isWritable |-> TRUE]
                /\ ins.keys[3] =
                      [pubkey |-> wallet, isSigner |-> TRUE, isWritable |-> FALSE]]_vars

\* C18 witness: a transfer of 1 USDC (1000000 micro-units, 40 42 0F hex) is
\* outstanding.
C18_Witness ==
    /\ calls["usdc"] = 1
    /\ Len(sent["usdc"].instructions) = 1
    /\ sent["usdc"].instructions[1].data = <<3, 64, 66, 15, 0, 0, 0, 0, 0>>
    /\ sent["usdc"].feeToken = "USDC"

\* C19 (as claimed): after the external call of a form rejected with a
\* value that is not an Error instance or that has no message, the form
\* shows its generic fallback text.
C19_FallbackShown ==
    \A f \in Forms :
        (/\ pc[f] = "rejected"
         /\ (settled[f].kind # "Error" \/ settled[f].message = <<>>))
            => ErrorTextOf(tf, sm, f) = FallbackOf(f)

Blank(message) == \A i \in 1..Len(message) : message[i] = " "

\* C21: in the WalletInfo variant with hasFetchedRef, at most one automatic
\* (effect-triggered) getBalance query is ever started, whatever the account
\* changes and query outcomes.
C21_AutomaticFetchOnce ==
    infoBuild = "ref" => balStarted["effect"] <= 1

C23_BlankMessageRefused ==
    [][HandleSign
          => IF Blank(sm.message)
             THEN /\ sm'.error = <<"Please", "enter", "a", "message", "to", "sign">>
                  /\ sm'.loading = sm.loading
                  /\ calls' = calls
                  /\ signed' = signed
             ELSE /\ calls'["sign"] = calls["sign"] + 1
                  /\ signed'.called
                  /\ signed'.message = sm.message]_vars

\* C23 witness: a message with a leading space is being signed as entered.
C23_Witness ==
    /\ pc["sign"] = "awaiting"
    /\ calls["sign"] = 1
    /\ signed = [called |-> TRUE, message |-> <<" ", "a">>]

\* C24: in each action form, at most one of the error message and the
\* success payload (txSignature / signature) is non-empty.
C24_ErrorXorPayload ==
    \A f \in Forms :
        ErrorTextOf(tf, sm, f) = <<>> \/ PayloadOf(tf, sm, f) = ""

\* C25: whenever WalletInfo displays a balance value, that value was
\* returned by a balance query for the currently connected account.
C25_BalanceOfCurrentAccount ==
    InfoDisplay = "value" => balanceFrom.address = wallet

\* C26: in the activity feed, once all history queries have settled and the
\* last of them resolved, the list is the result of a query for the
\* currently connected account.
C26_ListOfCurrentAccount ==
    (logCalls = <<>> /\ wallet # NoWallet /\ logSettled.kind = "resolved")
        => /\ logSettled.query.address = wallet
           /\ \A i \in 1..Len(activities) : activities[i].signature[1] = wallet

\* C27: in WalletInfo, once all balance queries have settled, the stored
\* balance is the result of the most recently started query among those that
\* resolved.
C27_LatestStartedWins ==
    (balCalls = <<>> /\ okSeq > 0) => balanceFrom.seq = okSeq

\* C28: in the activity feed, loading is true in every state in which a
\* history query is outstanding.
C28_LoadingWhileQuerying ==
    logCalls # <<>> => logLoading

\* C29: getTimeAgo returns "Unknown time" for a missing (falsy) timestamp,
\* "Just now" for every timestamp ahead of the clock, and never a count
\* below 1 in an "m ago" / "h ago" / "d ago" label.
C29_TimeEdges ==
    [][timeAgo' # timeAgo
          => /\ timestamp = 0 => timeAgo' = [n |-> 0, unit |-> "Unknown time"]
             /\ (timestamp > 0 /\ clock < timestamp * 1000)
                   => timeAgo' = [n |-> 0, unit |-> "Just now"]
             /\ timeAgo'.unit \in {"Unknown time", "Just now", "m ago", "h ago", "d ago"}
             /\ timeAgo'.unit \in {"m ago", "h ago", "d ago"} => timeAgo'.n >= 1]_vars

\* C29 witness: a block time ahead of the clock was rendered as "Just now".
C29_Witness ==
    /\ timestamp > 0
    /\ clock < timestamp * 1000
    /\ timeAgo = [n |-> 0, unit |-> "Just now"]

\* C30: once the mount effect of ThemeToggle has run, isDark is false iff
\* the stored "theme" is "light" iff the document root carries "light".
C30_IndicatorsAgree ==
    themePc = "mounted"
        => /\ (~isDark) <=> (savedTheme = <<"light">>)
           /\ (savedTheme = <<"light">>) <=> rootLight

====
